---- MODULE Spec2Model ----
(***************************************************************************)
(* gptravel: the itinerary-ordering core.                                  *)
(*   geocoder.py    GeoCoder: _query / location_coordinates /              *)
(*                  location_distance over the process-wide LOCATION_CACHE *)
(*   tsp_solver.py  TSPSolver.solve: distance matrix, open-problem column  *)
(*                  zeroing, exact / heuristic solver selection            *)
(* Distances are integers (km on a small grid); the geodesic is modelled   *)
(* by a symmetric, non-negative metric on integer coordinates.  Python     *)
(* indexes 0..n-1 are positions 1..n here, so the start (index 0) is       *)
(* position 1.                                                             *)
(***************************************************************************)
EXTENDS Integers, Sequences, FiniteSets, TLC

VARIABLES
    cache,          \* LOCATION_CACHE: lower-cased name -> Location or None
    providerCalls,  \* number of geocode() calls made, per name as passed
    queried,        \* lower-cased names that _query has been asked for
    distance_matrix,\* TSPSolver._distance_matrix
    op,             \* the last operation called
    args,           \* its place names (one, two, or the list of cities)
    open,           \* its open_problem argument (FALSE when it has none)
    ret,            \* what it returned
    fault,          \* TRUE when it raised instead of returning
    solvers,        \* the solvers it invoked, in order
    dist_mat,       \* the matrix it handed to the solver (empty when none)
    inflight        \* the _query calls of concurrent callers, statement by
                    \* statement: where each is, its argument and its locals

vars == <<cache, providerCalls, queried, distance_matrix, op, args, open, ret,
          fault, solvers, dist_mat, inflight>>

----------------------------------------------------------------------------
(* Bounds *)

\* every list of at most MaxLen names of ListNames is an input of solve
MaxLen == 2
\* simulated annealing takes at most MaxAnneal perturbation steps
MaxAnneal == 1
\* at most MaxCallers callers are inside _query at the same time
MaxCallers == 2

----------------------------------------------------------------------------
(* Place names, str.lower, and the geocoding provider *)

\* every place name that occurs
Places == {"Rome", "rome", "Oslo", "OSLO", "Nice", "Bern", "Atlantis"}

\* the names the resolver is called with directly
Names == {"Rome", "rome", "Oslo", "Atlantis"}

\* the names that short lists hold
ListNames == {"rome", "Atlantis"}

lower(name) ==
    CASE name = "Rome" -> "rome"
      [] name = "rome" -> "rome"
      [] name = "Oslo" -> "oslo"
      [] name = "OSLO" -> "oslo"
      [] name = "Nice" -> "nice"
      [] name = "Bern" -> "bern"
      [] name = "Atlantis" -> "atlantis"
      [] OTHER -> name

Keys == {lower(n) : n \in Places}

\* A geopy Location (its coordinates), or None when found is FALSE.
None == [found |-> FALSE, lat |-> 0, lon |-> 0]
Location(la, lo) == [found |-> TRUE, lat |-> la, lon |-> lo]

\* Photon().geocode: deterministic per name as passed; nothing promises that
\* two spellings of one place resolve to the same point, and "Atlantis" has
\* no match.
Photon(name) ==
    CASE name = "Rome" -> Location(1, 1)
      [] name = "rome" -> Location(1, 2)
      [] name = "Oslo" -> Location(5, 1)
      [] name = "OSLO" -> Location(5, 1)
      [] name = "Nice" -> Location(2, 5)
      [] name = "Bern" -> Location(4, 3)
      [] OTHER -> None

Abs(x) == IF x < 0 THEN -x ELSE x

\* geodesic(p1, p2).km on resolved coordinates
GRC(p1, p2) == Abs(p1.lat - p2.lat) + Abs(p1.lon - p2.lon)

\* What geodesic does with a (None, None) pair depends on the geopy build:
\* it raises, or it reads the pair as the point (0, 0).  A call below takes
\* either course.
GeodesicOnNone == {"raise", "origin"}

----------------------------------------------------------------------------
(* GeoCoder, as functions of the resolver state                            *)
(* A resolver state is [cache, calls, queried]; every operation returns    *)
(* the new resolver state next to its value.                               *)

Resolver(c, p, q) == [cache |-> c, calls |-> p, queried |-> q]

\* (variant: the result is stored under the name as passed)
_query_KeyedAsPassed(rs, location_name) ==
    LET loc_name == lower(location_name)
        asked == rs.queried \cup {loc_name}
    IN  IF loc_name \in DOMAIN rs.cache
        THEN [rs |-> [rs EXCEPT !.queried = asked], val |-> rs.cache[loc_name]]
        ELSE LET qry_obj == Photon(location_name)
             IN  [rs |-> [cache |-> [k \in DOMAIN rs.cache \cup {location_name} |->
                                       IF k = location_name THEN qry_obj
                                       ELSE rs.cache[k]],
                          calls |-> [rs.calls EXCEPT ![location_name] = @ + 1],
                          queried |-> asked],
                  val |-> qry_obj]

\* GeoCoder._query
_query(rs, location_name) ==
    LET loc_name == lower(location_name)
        asked == rs.queried \cup {loc_name}
    IN  IF loc_name \in DOMAIN rs.cache
        THEN [rs |-> [rs EXCEPT !.queried = asked], val |-> rs.cache[loc_name]]
        ELSE LET qry_obj == Photon(location_name)
             IN  [rs |-> [cache |-> [k \in DOMAIN rs.cache \cup {loc_name} |->
                                       IF k = loc_name THEN qry_obj
                                       ELSE rs.cache[k]],
                          calls |-> [rs.calls EXCEPT ![location_name] = @ + 1],
                          queried |-> asked],
                  val |-> qry_obj]

\* (variant: no test of fetched_location, a missing match read as a point)
location_coordinates_Unchecked(rs, location_name) ==
    LET q == _query(rs, location_name)
    IN  [rs |-> q.rs, val |-> Location(q.val.lat, q.val.lon)]

\* GeoCoder.location_coordinates: {"lat": .., "lon": ..}, both None when the
\* location is unresolved (the coordinates carry found = FALSE)
location_coordinates(rs, location_name) ==
    LET q == _query(rs, location_name)
    IN  [rs |-> q.rs,
         val |-> IF q.val.found THEN Location(q.val.lat, q.val.lon) ELSE None]

\* (variant: no fast path, both names are always resolved)
location_distance_AlwaysResolves(rs, location_name_1, location_name_2, onNone) ==
    LET c1 == location_coordinates(rs, location_name_1)
        c2 == location_coordinates(c1.rs, location_name_2)
        missing == ~c1.val.found \/ ~c2.val.found
    IN  [rs |-> c2.rs,
         val |-> IF missing /\ onNone = "raise" THEN 0 ELSE GRC(c1.val, c2.val),
         raised |-> missing /\ onNone = "raise"]

\* GeoCoder.location_distance; onNone is the geopy build's treatment of
\* (None, None).  The result carries raised = TRUE when geodesic raised.
location_distance(rs, location_name_1, location_name_2, onNone) ==
    IF lower(location_name_1) = lower(location_name_2)
    THEN [rs |-> rs, val |-> 0, raised |-> FALSE]
    ELSE LET c1 == location_coordinates(rs, location_name_1)
             c2 == location_coordinates(c1.rs, location_name_2)
             missing == ~c1.val.found \/ ~c2.val.found
         IN  [rs |-> c2.rs,
              val |-> IF missing /\ onNone = "raise" THEN 0
                      ELSE GRC(c1.val, c2.val),
              raised |-> missing /\ onNone = "raise"]

----------------------------------------------------------------------------
(* numpy helpers *)

Range(s) == {s[k] : k \in DOMAIN s}

Min(S) == CHOOSE x \in S : \A y \in S : x <= y

RECURSIVE SumSeq(_)
SumSeq(s) == IF s = << >> THEN 0 ELSE Head(s) + SumSeq(Tail(s))

Reverse(s) == [k \in 1..Len(s) |-> s[Len(s) + 1 - k]]

\* v itself, as a table computed once (TLC evaluates a function constructor
\* on demand, entry by entry, until the function is compared)
Stored(v) == CHOOSE x \in {v} : x = x

\* np.empty([2, 2]): a 2 x 2 array of whatever the memory held
EmptyArrays == {<<<<0, 0>>, <<0, 0>>>>, <<<<9, 0>>, <<5, 9>>>>}

\* dist_mat[:, 0] = 0.0: the column of the start zeroed, the rest kept
ZeroStartColumn(m) ==
    [i \in DOMAIN m |-> [j \in DOMAIN m[i] |-> IF j = 1 THEN 0 ELSE m[i][j]]]

----------------------------------------------------------------------------
(* The distance matrix of solve: row by row, left to right, each          *)
(* off-diagonal entry one location_distance call on the resolver.          *)

\* (variant: a distance call that raises leaves nothing in the cache)
RECURSIVE BuildRow_FaultUndoesCache(_, _, _, _, _, _)
BuildRow_FaultUndoesCache(rs, cities, onNone, i, j, row) ==
    IF j > Len(cities)
    THEN [rs |-> rs, row |-> row, raised |-> FALSE]
    ELSE IF i = j
    THEN BuildRow_FaultUndoesCache(rs, cities, onNone, i, j + 1, Append(row, 0))
    ELSE LET d == location_distance(rs, cities[i], cities[j], onNone)
         IN  IF d.raised
             THEN [rs |-> rs, row |-> row, raised |-> TRUE]
             ELSE BuildRow_FaultUndoesCache(d.rs, cities, onNone, i, j + 1,
                                            Append(row, d.val))

\* row i from column j on: the entries so far and the resolver they left
RECURSIVE BuildRow(_, _, _, _, _, _)
BuildRow(rs, cities, onNone, i, j, row) ==
    IF j > Len(cities)
    THEN [rs |-> rs, row |-> row, raised |-> FALSE]
    ELSE IF i = j
    THEN BuildRow(rs, cities, onNone, i, j + 1, Append(row, 0))
    ELSE LET d == location_distance(rs, cities[i], cities[j], onNone)
         IN  IF d.raised
             THEN [rs |-> d.rs, row |-> row, raised |-> TRUE]
             ELSE BuildRow(d.rs, cities, onNone, i, j + 1, Append(row, d.val))

RECURSIVE BuildRows(_, _, _, _, _)
BuildRows(rs, cities, onNone, i, rows) ==
    IF i > Len(cities)
    THEN [rs |-> rs, matrix |-> rows, raised |-> FALSE]
    ELSE LET r == BuildRow(rs, cities, onNone, i, 1, << >>)
         IN  IF r.raised
             THEN [rs |-> r.rs, matrix |-> << >>, raised |-> TRUE]
             ELSE BuildRows(r.rs, cities, onNone, i + 1, Append(rows, r.row))

BuildMatrix(rs, cities, onNone) == BuildRows(rs, cities, onNone, 1, << >>)

----------------------------------------------------------------------------
(* python_tsp.exact.solve_tsp_dynamic_programming                          *)
(* dist(ni, N) = min over nj in N of m[ni][nj] + dist(nj, N \ {nj}), with  *)
(* dist(ni, {}) = m[ni][start]; memo[(ni, N)] is a minimising nj.  The     *)
(* memoised recursion is tabulated by the size of N.  min() keeps the      *)
(* first minimum in the iteration order of the frozenset, which is not     *)
(* specified: any minimiser may be the one remembered.                     *)

\* The calls dist(ni, N) made for N of k places: ni is the start when N is
\* all the other places, and a place outside N otherwise.  prev holds the
\* values for every N of k - 1 places.
DPLevel(m, rest, k, prev) ==
    [N \in {S \in SUBSET rest : Cardinality(S) = k} |->
       [ni \in (IF N = rest THEN {1} ELSE rest \ N) |->
          Min({m[ni][nj] + prev[N \ {nj}][nj] : nj \in N})]]

\* levels[c + 1][N][ni] is dist(ni, N) for N of c places, c up to k
RECURSIVE DPLevels(_, _, _)
DPLevels(m, rest, k) ==
    IF k = 0
    THEN <<[N \in {{}} |-> [ni \in (IF rest = {} THEN {1} ELSE rest) |->
                              m[ni][1]]]>>
    ELSE LET below == Stored(DPLevels(m, rest, k - 1))
         IN  Append(below, Stored(DPLevel(m, rest, k, below[k])))

\* the orders the memo can hold: from ni, any nj that attained the minimum
RECURSIVE DPPaths(_, _, _, _)
DPPaths(m, levels, ni, N) ==
    IF N = {} THEN {<< >>}
    ELSE LET c == Cardinality(N)
         IN  UNION {{<<nj>> \o p : p \in DPPaths(m, levels, nj, N \ {nj})} :
                    nj \in {x \in N : m[ni][x] + levels[c][N \ {x}][x]
                                      = levels[c + 1][N][ni]}}

solve_tsp_dynamic_programming(m) ==
    LET rest == DOMAIN m \ {1}
        levels == Stored(DPLevels(m, rest, Cardinality(rest)))
    IN  {[permutation |-> <<1>> \o p,
          distance |-> levels[Cardinality(rest) + 1][rest][1]] :
         p \in DPPaths(m, levels, 1, rest)}

----------------------------------------------------------------------------
(* python_tsp.heuristics.solve_tsp_simulated_annealing                     *)

\* compute_permutation_distance: the closed tour, last place back to first
compute_permutation_distance(m, x) ==
    SumSeq([k \in 1..Len(x) |-> m[x[k]][x[(k % Len(x)) + 1]]])

\* setup_initial_solution: the start followed by a random order of the rest;
\* the random orders drawn here are the rest as listed and the rest reversed
InitialSolutions(n) ==
    LET rest == [k \in 1..(n - 1) |-> k + 1]
    IN  {<<1>> \o rest, <<1>> \o Reverse(rest)}

\* two_opt_gen: positions i..j reversed, 2 <= i < j <= n; the start stays
TwoOpt(x, i, j) ==
    [k \in 1..Len(x) |-> IF k >= i /\ k <= j THEN x[i + j - k] ELSE x[k]]

\* two_opt_gen draws i and then j at random; the draws taken here are the
\* shortest and the longest segment after the start, and the last two places
TwoOptDraws(n) ==
    {t \in {2, n - 1} \X {3, n} : 2 <= t[1] /\ t[1] < t[2] /\ t[2] <= n}

\* One perturbation: a better neighbour is accepted, a worse one is accepted
\* or not (the random draw against exp(-dfx / temp)), an equal one never.
AnnealStep(m, X) ==
    X \cup {TwoOpt(t[1], t[2][1], t[2][2]) : t \in
            {t \in X \X TwoOptDraws(Len(m)) :
                compute_permutation_distance(m, TwoOpt(t[1], t[2][1], t[2][2]))
                  # compute_permutation_distance(m, t[1])}}

RECURSIVE Anneal(_, _, _)
Anneal(m, X, steps) ==
    IF steps = 0 THEN X ELSE Anneal(m, AnnealStep(m, X), steps - 1)

solve_tsp_simulated_annealing(m) ==
    {[permutation |-> x, distance |-> compute_permutation_distance(m, x)] :
     x \in Anneal(m, InitialSolutions(Len(m)), MaxAnneal)}

----------------------------------------------------------------------------
(* Inputs *)

\* every list of at most MaxLen names, a cached-or-not place and one
\* without a match among them
ShortLists == UNION {[1..n -> ListNames] : n \in 0..MaxLen}

\* itineraries: two spellings of one place, distinct places, a place
\* without a match behind resolvable ones
Tours == {<<"Rome", "rome">>, <<"Rome", "Oslo">>, <<"Rome", "Oslo", "Nice">>,
          <<"Rome", "Oslo", "Nice", "Bern">>,
          <<"Oslo", "Nice", "Bern", "rome", "OSLO">>,
          <<"Oslo", "Nice", "Atlantis">>}

\* lists on both sides of the size at which solve changes solver
ThresholdNames == {"Rome", "Oslo"}
Itinerary == <<"Rome", "Oslo", "Nice", "Bern", "Rome", "Oslo", "Nice", "Bern",
               "Rome", "Oslo", "Nice">>
ThresholdLists == {SubSeq(Itinerary, 1, n) : n \in {0, 1, 2, 4, 9, 10, 11}}

----------------------------------------------------------------------------
(* State *)

NoReturn == [names |-> << >>, dist |-> 0, loc |-> None]

\* the callers that may be inside _query together, and a caller outside it
Callers == 1..MaxCallers
Idle == [pc |-> "idle", location_name |-> "", qry_obj |-> None, result |-> None]

Init ==
    /\ cache = [k \in {} |-> None]
    /\ providerCalls = [n \in Places |-> 0]
    /\ queried = {}
    /\ distance_matrix \in EmptyArrays
    /\ op = "none"
    /\ args = << >>
    /\ open = FALSE
    /\ ret = NoReturn
    /\ fault = FALSE
    /\ solvers = << >>
    /\ dist_mat = << >>
    /\ inflight = [t \in Callers |-> Idle]

Now == Resolver(cache, providerCalls, queried)

Resolved(rs) ==
    /\ cache' = rs.cache
    /\ providerCalls' = rs.calls
    /\ queried' = rs.queried

\* GeoCoder._query called by a client
Query(name) ==
    LET q == _query(Now, name)
    IN  /\ Resolved(q.rs)
        /\ op' = "_query"
        /\ args' = <<name>>
        /\ ret' = [NoReturn EXCEPT !.loc = q.val]
        /\ fault' = FALSE
        /\ solvers' = << >>
        /\ dist_mat' = << >>
        /\ open' = FALSE
        /\ UNCHANGED <<distance_matrix, inflight>>

\* GeoCoder.location_coordinates called by a client
LocationCoordinates(name) ==
    LET c == location_coordinates(Now, name)
    IN  /\ Resolved(c.rs)
        /\ op' = "location_coordinates"
        /\ args' = <<name>>
        /\ ret' = [NoReturn EXCEPT !.loc = c.val]
        /\ fault' = FALSE
        /\ solvers' = << >>
        /\ dist_mat' = << >>
        /\ open' = FALSE
        /\ UNCHANGED <<distance_matrix, inflight>>

\* GeoCoder.location_distance called by a client
LocationDistance(name1, name2) ==
    \E d \in {location_distance(Now, name1, name2, onNone) :
              onNone \in GeodesicOnNone} :
        /\ Resolved(d.rs)
        /\ op' = "location_distance"
        /\ args' = <<name1, name2>>
        /\ ret' = [NoReturn EXCEPT !.dist = d.val]
        /\ fault' = d.raised
        /\ solvers' = << >>
        /\ dist_mat' = << >>
        /\ open' = FALSE
        /\ UNCHANGED <<distance_matrix, inflight>>

\* (variant: len(cities) > 0)
NeedsSolver_NonEmpty(cities) == Len(cities) > 0

\* len(cities) > 1: a matrix is built and a solver called
NeedsSolver(cities) == Len(cities) > 1

\* the size below which solve takes the exact solver
ExactBelow == 10

\* (variant: len(cities) <= 10)
Solver_UpToThreshold(cities) ==
    IF Len(cities) <= ExactBelow THEN "solve_tsp_dynamic_programming"
    ELSE "solve_tsp_simulated_annealing"

\* (variant: the two branches exchanged)
Solver_Exchanged(cities) ==
    IF Len(cities) < ExactBelow THEN "solve_tsp_simulated_annealing"
    ELSE "solve_tsp_dynamic_programming"

\* the solver solve picks, and what a call of it may return
Solver(cities) ==
    IF Len(cities) < ExactBelow THEN "solve_tsp_dynamic_programming"
    ELSE "solve_tsp_simulated_annealing"

Solutions(solver, m) ==
    IF solver = "solve_tsp_dynamic_programming"
    THEN solve_tsp_dynamic_programming(m)
    ELSE solve_tsp_simulated_annealing(m)

\* (variant: dist_mat[0, :] = 0.0, the row of the start)
WorkingMatrix_ZeroStartRow(matrix, open_problem) ==
    IF open_problem
    THEN [i \in DOMAIN matrix |-> [j \in DOMAIN matrix[i] |->
            IF i = 1 THEN 0 ELSE matrix[i][j]]]
    ELSE matrix

\* (variant: dist_mat[:, -1] = 0.0, the column of the last place)
WorkingMatrix_ZeroLastColumn(matrix, open_problem) ==
    IF open_problem
    THEN [i \in DOMAIN matrix |-> [j \in DOMAIN matrix[i] |->
            IF j = Len(matrix) THEN 0 ELSE matrix[i][j]]]
    ELSE matrix

\* (variant: open_problem ignored)
WorkingMatrix_Closed(matrix, open_problem) == matrix

\* np.copy(self._distance_matrix), its start column zeroed for an open problem
WorkingMatrix(matrix, open_problem) ==
    IF open_problem THEN ZeroStartColumn(matrix) ELSE matrix

\* (variant: no copy, the working matrix is the stored array itself)
StoredMatrix_Aliased(matrix, working) == working

\* (variant: the start column is zeroed in the stored array itself)
StoredMatrix_StartColumnZeroed(matrix, working) == ZeroStartColumn(matrix)

\* self._distance_matrix once the working copy has been written to: the
\* copy shares nothing with it
StoredMatrix(matrix, working) == matrix

\* (variant: consecutive repeats of a name are dropped from the route)
Route_WithoutRepeats(cities, solution_indexes) ==
    LET route == [k \in 1..Len(solution_indexes) |-> cities[solution_indexes[k]]]
    IN  SelectSeq([k \in 1..Len(route) |->
                     IF k > 1 /\ route[k - 1] = route[k] THEN "" ELSE route[k]],
                  LAMBDA x : x # "")

\* [cities[index] for index in solution_indexes]
Route(cities, solution_indexes) ==
    [k \in 1..Len(solution_indexes) |-> cities[solution_indexes[k]]]

\* TSPSolver.solve
Solve(cities, open_problem) ==
    /\ op' = "solve"
    /\ UNCHANGED inflight
    /\ args' = cities
    /\ open' = open_problem
    /\ IF NeedsSolver(cities)
       THEN \E b \in {BuildMatrix(Now, cities, onNone) :
                      onNone \in GeodesicOnNone} :
              /\ Resolved(b.rs)
              /\ IF b.raised
                 THEN /\ fault' = TRUE
                      /\ ret' = NoReturn
                      /\ solvers' = << >>
                      /\ dist_mat' = << >>
                      /\ UNCHANGED distance_matrix
                 ELSE /\ fault' = FALSE
                      /\ solvers' = <<Solver(cities)>>
                      /\ \E working \in {Stored(WorkingMatrix(b.matrix,
                                                              open_problem))} :
                           /\ distance_matrix' = StoredMatrix(b.matrix, working)
                           /\ dist_mat' = working
                           /\ \E s \in Solutions(Solver(cities), working) :
                                ret' = [NoReturn EXCEPT
                                          !.names = Route(cities, s.permutation),
                                          !.dist = s.distance]
       ELSE /\ ret' = [NoReturn EXCEPT !.names = cities]
            /\ fault' = FALSE
            /\ solvers' = << >>
            /\ dist_mat' = << >>
            /\ UNCHANGED <<cache, providerCalls, queried, distance_matrix>>

Next ==
    \/ \E name \in Names : Query(name)
    \/ \E name \in Names : LocationCoordinates(name)
    \/ \E name1 \in Names, name2 \in Names : LocationDistance(name1, name2)
    \/ \E cities \in ShortLists \cup Tours, open_problem \in BOOLEAN :
         Solve(cities, open_problem)

Spec == Init /\ [][Next]_vars

\* the same operations, called with lists around the threshold
NextThreshold ==
    \/ \E name \in ThresholdNames : Query(name)
    \/ \E name \in ThresholdNames : LocationCoordinates(name)
    \/ \E name1 \in ThresholdNames, name2 \in ThresholdNames :
         LocationDistance(name1, name2)
    \/ \E cities \in ThresholdLists, open_problem \in BOOLEAN :
         Solve(cities, open_problem)

SpecThreshold == Init /\ [][NextThreshold]_vars

----------------------------------------------------------------------------
(* _query entered by several callers at once.  LOCATION_CACHE is a module  *)
(* global, shared by every GeoCoder of the process; nothing in _query      *)
(* holds a lock, so the callers' statements interleave freely.  Each       *)
(* caller makes one call and keeps what it returned.                       *)

\* the names concurrent callers pass: two spellings of "rome", which the
\* provider answers differently, and two of "oslo", which it answers alike
ConcurrentNames == {"Rome", "rome", "Oslo", "OSLO"}

At(t, pc) == inflight[t].pc = pc

Goto(t, pc) == inflight' = [inflight EXCEPT ![t].pc = pc]

Sequential == <<distance_matrix, op, args, open, ret, fault, solvers, dist_mat>>

\* line 27: loc_name = location_name.lower()
Enter(t, name) ==
    /\ At(t, "idle")
    /\ inflight' = [inflight EXCEPT ![t] = [Idle EXCEPT !.pc = "test",
                                                       !.location_name = name]]
    /\ queried' = queried \cup {lower(name)}
    /\ UNCHANGED <<cache, providerCalls, Sequential>>

\* line 29: if loc_name in LOCATION_CACHE
Test(t) ==
    /\ At(t, "test")
    /\ Goto(t, IF lower(inflight[t].location_name) \in DOMAIN cache
               THEN "read" ELSE "geocode")
    /\ UNCHANGED <<cache, providerCalls, queried, Sequential>>

\* line 31: return LOCATION_CACHE[loc_name]
ReadCached(t) ==
    /\ At(t, "read")
    /\ inflight' = [inflight EXCEPT
                      ![t].pc = "done",
                      ![t].result = cache[lower(inflight[t].location_name)]]
    /\ UNCHANGED <<cache, providerCalls, queried, Sequential>>

\* line 33: qry_obj = self._geocoder(location_name)
Geocode(t) ==
    /\ At(t, "geocode")
    /\ inflight' = [inflight EXCEPT
                      ![t].pc = "store",
                      ![t].qry_obj = Photon(inflight[t].location_name)]
    /\ providerCalls' = [providerCalls EXCEPT ![inflight[t].location_name] = @ + 1]
    /\ UNCHANGED <<cache, queried, Sequential>>

\* (variant: LOCATION_CACHE[location_name] = qry_obj)
Store_KeyedAsPassed(t) ==
    /\ At(t, "store")
    /\ cache' = [k \in DOMAIN cache \cup {inflight[t].location_name} |->
                   IF k = inflight[t].location_name THEN inflight[t].qry_obj
                   ELSE cache[k]]
    /\ Goto(t, "return")
    /\ UNCHANGED <<providerCalls, queried, Sequential>>

\* line 35: LOCATION_CACHE[loc_name] = qry_obj
Store(t) ==
    /\ At(t, "store")
    /\ cache' = [k \in DOMAIN cache \cup {lower(inflight[t].location_name)} |->
                   IF k = lower(inflight[t].location_name)
                   THEN inflight[t].qry_obj ELSE cache[k]]
    /\ Goto(t, "return")
    /\ UNCHANGED <<providerCalls, queried, Sequential>>

\* line 36: return qry_obj
Return(t) ==
    /\ At(t, "return")
    /\ inflight' = [inflight EXCEPT ![t].pc = "done",
                                    ![t].result = inflight[t].qry_obj]
    /\ UNCHANGED <<cache, providerCalls, queried, Sequential>>

NextConcurrent ==
    \/ \E t \in Callers, name \in ConcurrentNames : Enter(t, name)
    \/ \E t \in Callers : Test(t)
    \/ \E t \in Callers : ReadCached(t)
    \/ \E t \in Callers : Geocode(t)
    \/ \E t \in Callers : Store(t)
    \/ \E t \in Callers : Return(t)

SpecConcurrent == Init /\ [][NextConcurrent]_vars

----------------------------------------------------------------------------
(* Vocabulary of the properties *)

\* solve returned (did not raise) from a call with cities
Returned == op = "solve" /\ ~fault

Count(seq, x) == Cardinality({k \in DOMAIN seq : seq[k] = x})

\* the provider has a match for the name
Resolvable(name) == Photon(name).found

\* geocode() calls made for a lower-cased name, over all its spellings
CallsFor(calls, key) ==
    LET spellings == {n \in Places : lower(n) = key}
        RECURSIVE Total(_)
        Total(S) == IF S = {} THEN 0
                    ELSE LET n == CHOOSE n \in S : TRUE
                         IN  calls[n] + Total(S \ {n})
    IN  Total(spellings)

----------------------------------------------------------------------------
\* C1: the list solve returns is a permutation of the list it was given:
\* the same length and the same number of occurrences of every name.
C1_RouteIsPermutation ==
    Returned =>
        /\ Len(ret.names) = Len(args)
        /\ \A x \in Places : Count(ret.names, x) = Count(args, x)

\* a heuristic solve of ten places or more, duplicates among them, that
\* reordered the list
C1_Witness ==
    /\ Returned
    /\ Len(args) >= ExactBelow
    /\ \E x \in Places : Count(args, x) > 1
    /\ ret.names # args

\* C2: solve on a list of at most one place returns the list as given with
\* distance 0, calls no solver and no provider, and leaves the cache and the
\* stored distance matrix as they were.
C2_DegenerateLeavesAllAlone ==
    [][(op' = "solve" /\ Len(args') <= 1) =>
          /\ ~fault'
          /\ ret'.names = args'
          /\ ret'.dist = 0
          /\ solvers' = << >>
          /\ dist_mat' = << >>
          /\ providerCalls' = providerCalls
          /\ queried' = queried
          /\ cache' = cache
          /\ distance_matrix' = distance_matrix]_vars

\* solve on one place that is not cached, after a solve of three places
\* stored its matrix
C2_Witness ==
    /\ Returned
    /\ Len(args) = 1
    /\ lower(args[1]) \notin DOMAIN cache
    /\ Len(distance_matrix) = 3
    /\ ret.names = args

\* C3: the matrix solve builds for N >= 2 resolvable names is N x N, zero on
\* the diagonal, symmetric, non-negative, and zero between any two places
\* whose names are equal under case-folding.
C3_MatrixShape ==
    (Returned /\ Len(args) >= 2 /\ \A k \in DOMAIN args : Resolvable(args[k])) =>
        LET n == Len(args)
            m == distance_matrix
        IN  /\ Len(m) = n
            /\ \A i \in 1..n :
                 /\ Len(m[i]) = n
                 /\ m[i][i] = 0
                 /\ \A j \in 1..n :
                      /\ m[i][j] = m[j][i]
                      /\ m[i][j] >= 0
                      /\ lower(args[i]) = lower(args[j]) => m[i][j] = 0

\* a matrix with a zero between two spellings of one place and a positive
\* distance elsewhere
C3_Witness ==
    /\ Returned
    /\ \A k \in DOMAIN args : Resolvable(args[k])
    /\ \E i, j \in DOMAIN args :
         /\ args[i] # args[j]
         /\ lower(args[i]) = lower(args[j])
         /\ distance_matrix[i][j] = 0
    /\ \E i, j \in DOMAIN args : distance_matrix[i][j] > 0

\* C4: location_distance on two names equal under case-folding returns 0
\* and resolves nothing: no provider call, the cache as it was, also when
\* the name is not cached or has no match.
C4_SamePlaceFastPath ==
    [][(op' = "location_distance" /\ lower(args'[1]) = lower(args'[2])) =>
          /\ ~fault'
          /\ ret'.dist = 0
          /\ providerCalls' = providerCalls
          /\ queried' = queried
          /\ cache' = cache]_vars

\* the distance of a place without a match from itself, asked before the
\* place was ever resolved
C4_Witness ==
    /\ op = "location_distance"
    /\ lower(args[1]) = lower(args[2])
    /\ ~Resolvable(args[1])
    /\ lower(args[1]) \notin DOMAIN cache
    /\ ret.dist = 0

----------------------------------------------------------------------------
(* Distances of a route, read off the stored (unmodified) matrix *)

\* a position of the name in the list solve was given
Pos(name) == CHOOSE k \in DOMAIN args : args[k] = name

EdgeKm(a, b) == distance_matrix[Pos(a)][Pos(b)]

\* the consecutive edges of a route
PathKm(route) == SumSeq([k \in 1..(Len(route) - 1) |-> EdgeKm(route[k], route[k + 1])])

\* the edge from the last place back to the first
ClosingKm(route) == EdgeKm(route[Len(route)], route[1])

ClosedKm(route) == PathKm(route) + ClosingKm(route)

\* every arrangement of a list's names, each name as often as it occurs
RECURSIVE Arrangements(_)
Arrangements(left) ==
    IF \A x \in DOMAIN left : left[x] = 0 THEN {<< >>}
    ELSE UNION {{<<x>> \o p : p \in Arrangements([left EXCEPT ![x] = @ - 1])} :
                x \in {y \in DOMAIN left : left[y] > 0}}

RoutesOf(list) == Arrangements([x \in Range(list) |-> Count(list, x)])

----------------------------------------------------------------------------
\* C5 as claimed: with open_problem the distance solve returns is the
\* closed-loop total of the returned order on the unmodified matrix, the
\* closing edge back to the start included.
C5_AsClaimed_ClosedLoopTotal ==
    (Returned /\ open /\ Len(args) >= 2) => ret.dist = ClosedKm(ret.names)

\* C5 amended: with open_problem the distance solve returns is the total of
\* the returned order on the unmodified matrix without the closing edge back
\* to the start: the zeroed start column lowers the reported distance by
\* exactly that edge.
C5_OpenTotalOmitsClosingEdge ==
    (Returned /\ open /\ Len(args) >= 2) =>
        ret.dist = ClosedKm(ret.names) - ClosingKm(ret.names)

\* an open solve by the exact solver whose route ends away from the start
C5_Witness ==
    /\ Returned
    /\ open
    /\ Len(args) >= 2
    /\ Len(args) < ExactBelow
    /\ ClosingKm(ret.names) > 0
    /\ ret.dist < ClosedKm(ret.names)

\* C6: the distance solve returns for two places or more is the sum of the
\* unmodified distances between consecutive places of the returned order,
\* plus the closing edge from the last back to the first if and only if
\* open_problem is false.
C6_TotalIsSumOfEdges ==
    (Returned /\ Len(args) >= 2) =>
        ret.dist = PathKm(ret.names) + (IF open THEN 0 ELSE ClosingKm(ret.names))

\* a closed solve whose closing edge is counted in a positive total
C6_Witness ==
    /\ Returned
    /\ ~open
    /\ Len(args) >= 2
    /\ ClosingKm(ret.names) > 0
    /\ ret.dist = PathKm(ret.names) + ClosingKm(ret.names)

\* C7: with open_problem and two places or more the returned order starts
\* with the first place of the input, and in the matrix the solver minimises
\* over the edge from the last visited place back to the start costs 0.
C7_OpenKeepsStart ==
    (Returned /\ open /\ Len(args) >= 2) =>
        /\ ret.names[1] = args[1]
        /\ \A p \in DOMAIN args :
             args[p] = ret.names[Len(ret.names)] => dist_mat[p][1] = 0

\* an open heuristic solve whose last place is a positive distance from the
\* start on the unmodified matrix
C7_Witness ==
    /\ Returned
    /\ open
    /\ Len(args) >= ExactBelow
    /\ ret.names[1] = args[1]
    /\ distance_matrix[Pos(ret.names[Len(ret.names)])][1] > 0

\* C8: a returning solve of 2 to 9 places called the exact solver, one of 10
\* places or more the simulated annealing, each exactly once and nothing else.
C8_SolverBySize ==
    (Returned /\ Len(args) >= 2) =>
        solvers = <<IF Len(args) <= 9 THEN "solve_tsp_dynamic_programming"
                    ELSE "solve_tsp_simulated_annealing">>

\* a solve of exactly ten places, answered by simulated annealing
C8_Witness ==
    /\ Returned
    /\ Len(args) = 10
    /\ solvers = <<"solve_tsp_simulated_annealing">>

\* C9: for a closed problem of 2 to 9 places no permutation of the input has
\* a smaller closed-tour cost than the order solve returns.
C9_ExactIsOptimal ==
    (Returned /\ ~open /\ Len(args) >= 2 /\ Len(args) <= 9) =>
        \A p \in RoutesOf(args) : ClosedKm(ret.names) <= ClosedKm(p)

\* a closed solve of four places or more for which some permutation costs
\* strictly more than the returned order
C9_Witness ==
    /\ Returned
    /\ ~open
    /\ Len(args) >= 4
    /\ Len(args) <= 9
    /\ \E p \in RoutesOf(args) : ClosedKm(ret.names) < ClosedKm(p)

\* C10: the provider is called once for every lower-cased name ever queried
\* and never again, whatever the spelling; what _query returns is the cache
\* entry of that name, stored by the time it returns; no cache entry is ever
\* removed or changed.
C10_OneProviderCallPerPlace ==
    [][/\ \A k \in DOMAIN cache : k \in DOMAIN cache' /\ cache'[k] = cache[k]
       /\ DOMAIN cache' = queried'
       /\ \A k \in Keys :
            CallsFor(providerCalls', k) = IF k \in queried' THEN 1 ELSE 0
       /\ op' = "_query" =>
            /\ lower(args'[1]) \in DOMAIN cache'
            /\ ret'.loc = cache'[lower(args'[1])]]_vars

\* "rome" answered from the entry that "Rome" stored, with a place without
\* a match cached as well
C10_Witness ==
    /\ op = "_query"
    /\ args = <<"rome">>
    /\ providerCalls["Rome"] = 1
    /\ providerCalls["rome"] = 0
    /\ ret.loc = Photon("Rome")
    /\ "atlantis" \in DOMAIN cache
    /\ cache["atlantis"] = None

----------------------------------------------------------------------------
\* the distance of two places of the list as the resolver answers it now:
\* 0 between spellings of one place, else the geodesic of the cached
\* coordinates (a place without a match read as the point (0, 0))
FreshKm(i, j) ==
    IF lower(args[i]) = lower(args[j]) THEN 0
    ELSE GRC(cache[lower(args[i])], cache[lower(args[j])])

\* C11: after a returning solve of two places or more the stored
\* distance_matrix is the matrix of that call and nothing else: as many rows
\* and columns as the call had places, every entry the closed distance of
\* its two places, the column of the start included when open_problem is
\* true (the zeroing went to the working copy only).
C11_StoredMatrixIsFreshAndClosed ==
    (Returned /\ Len(args) >= 2) =>
        /\ Len(distance_matrix) = Len(args)
        /\ \A i \in DOMAIN args :
             /\ Len(distance_matrix[i]) = Len(args)
             /\ \A j \in DOMAIN args : distance_matrix[i][j] = FreshKm(i, j)

\* an open solve of three places or more: the solver saw a zero where the
\* stored matrix keeps the positive distance to the start
C11_Witness ==
    /\ Returned
    /\ open
    /\ Len(args) >= 3
    /\ \E i \in DOMAIN args :
         /\ dist_mat[i][1] = 0
         /\ distance_matrix[i][1] > 0
         /\ distance_matrix[i][1] = FreshKm(i, 1)

----------------------------------------------------------------------------
\* the name has no match: the provider has none for it when it is asked
\* (the key is not cached), or the cache holds None for its key
Unmatched(c, name) ==
    IF lower(name) \in DOMAIN c THEN c[lower(name)] = None
    ELSE ~Resolvable(name)

\* C12: _query and location_coordinates on a name without a match do not
\* raise and return the absent value (None, and latitude and longitude both
\* None), on the first query, which asks the provider and stores None, and
\* on every later one, which reads the cache.
C12_UnresolvedIsReturnedNotRaised ==
    [][(op' \in {"_query", "location_coordinates"} /\ Unmatched(cache, args'[1])) =>
          /\ ~fault'
          /\ ret'.loc = None
          /\ ~ret'.loc.found
          /\ lower(args'[1]) \in DOMAIN cache'
          /\ cache'[lower(args'[1])] = None]_vars

\* location_coordinates of a place without a match, answered from the
\* cache: "nice" is cached and "rome" is not, so a solve of Oslo, Nice and
\* Atlantis ran before and stored None for "atlantis"
C12_Witness ==
    /\ op = "location_coordinates"
    /\ args = <<"Atlantis">>
    /\ ~fault
    /\ ret.loc = None
    /\ "nice" \in DOMAIN cache
    /\ "rome" \notin DOMAIN cache
    /\ cache["atlantis"] = None

----------------------------------------------------------------------------
\* the callers that have entered _query with a name of the key, and those
\* of them that have returned
CallersOf(k) ==
    {t \in Callers : ~At(t, "idle") /\ lower(inflight[t].location_name) = k}

ReturnedOf(k) == {t \in CallersOf(k) : At(t, "done")}

\* C13 as claimed: callers that entered _query with names of one key, not
\* cached before, all receive the same value, and once they have all
\* returned the cache holds that value for the key.
C13_AsClaimed_SameValueForEveryCaller ==
    \A k \in Keys :
        /\ \A t, u \in ReturnedOf(k) : inflight[t].result = inflight[u].result
        /\ (ReturnedOf(k) = CallersOf(k)) =>
               \A t \in ReturnedOf(k) :
                   k \in DOMAIN cache /\ cache[k] = inflight[t].result

\* the provider answers alike every spelling the callers of the key passed
SameAnswer(k) ==
    \A t, u \in CallersOf(k) :
        Photon(inflight[t].location_name) = Photon(inflight[u].location_name)

\* C13 amended: when the provider returns the same value for every spelling
\* passed for a key, every caller that has returned received that value and
\* the cache holds it for the key from the first write on, whichever writer
\* is last.
C13_IdempotentWhenSpellingsAgree ==
    \A k \in Keys :
        SameAnswer(k) =>
            \A t \in ReturnedOf(k) :
                /\ inflight[t].result = Photon(inflight[t].location_name)
                /\ k \in DOMAIN cache
                /\ cache[k] = inflight[t].result

\* two callers with two spellings of "oslo" both found the key missing,
\* both asked the provider and both wrote; both hold the value the cache
\* holds
C13_Witness ==
    /\ \A t \in {1, 2} : At(t, "done")
    /\ inflight[1].location_name = "Oslo"
    /\ inflight[2].location_name = "OSLO"
    /\ providerCalls["Oslo"] = 1
    /\ providerCalls["OSLO"] = 1
    /\ inflight[1].result = inflight[2].result
    /\ cache["oslo"] = inflight[1].result

----------------------------------------------------------------------------
(* A place without a match in a list of solve *)

\* the pairs of positions whose distance solve asks the resolver for, some
\* place of the pair cached without a match in c
UnresolvedPairs(cities, c) ==
    {p \in (DOMAIN cities) \X (DOMAIN cities) :
        /\ lower(cities[p[1]]) # lower(cities[p[2]])
        /\ \E k \in {lower(cities[p[1]]), lower(cities[p[2]])} :
              k \in DOMAIN c /\ c[k] = None}

\* p is not after q in the order solve fills the matrix, row by row
NotAfter(p, q) == p[1] < q[1] \/ (p[1] = q[1] /\ p[2] <= q[2])

\* the keys resolved up to the first pair with a place without a match
ResolvedUpToFirst(cities, c) ==
    LET first == CHOOSE p \in UnresolvedPairs(cities, c) :
                     \A q \in UnresolvedPairs(cities, c) : NotAfter(p, q)
    IN  UNION {{lower(cities[p[1]]), lower(cities[p[2]])} :
               p \in {q \in (DOMAIN cities) \X (DOMAIN cities) :
                        /\ NotAfter(q, first)
                        /\ lower(cities[q[1]]) # lower(cities[q[2]])}}

\* the call was a solve of two places or more, one of them without a match
\* and paired with a place of another key
SolveWithUnresolved ==
    /\ op' = "solve"
    /\ Len(args') >= 2
    /\ UnresolvedPairs(args', cache') # {}

\* what a solve that raised leaves behind: no route, no solver called, the
\* stored matrix as before the call, and in the cache the entries it had
\* and those of the places resolved up to the pair that raised
FaultLeaves ==
    /\ ret' = NoReturn
    /\ solvers' = << >>
    /\ dist_mat' = << >>
    /\ distance_matrix' = distance_matrix
    /\ \A k \in DOMAIN cache : k \in DOMAIN cache' /\ cache'[k] = cache[k]
    /\ DOMAIN cache' = DOMAIN cache \cup ResolvedUpToFirst(args', cache')

====
